---------------------------- MODULE Spec2Model ----------------------------
(***************************************************************************)
(* Model of the logic-signal simulation engine of the SimulationCanvas     *)
(* component (src/unnamed/part_001).                                       *)
(*                                                                         *)
(* The component is a single-threaded React component: every timer         *)
(* callback, command handler and effect runs to completion, so each is one *)
(* action here, with the effects its state changes trigger folded into it. *)
(* State updaters are taken to run once per update (production build).     *)
(*                                                                         *)
(* Time is the value of performance.now() in milliseconds.  It advances in *)
(* steps of Quantum.  The periods of the interval timers are abstracted:   *)
(* an active interval timer may fire at any moment.  A setTimeout fires at *)
(* any moment at or after its due time.                                    *)
(*                                                                         *)
(* Signal progress is the IEEE 754 double the program holds, kept exactly  *)
(* as a whole number of units of 2^-59.                                    *)
(* Fields of a signal that only serve drawing (points, totalLength,        *)
(* createdAt, sourceName, destName) and element names are left out.        *)
(***************************************************************************)
EXTENDS Integers, Sequences, FiniteSets, TLC

\* ------------------------------------------------------------------ bounds
Quantum == 600
Horizon == 2
MaxPending == 2
MaxPerWire == 2

MaxTime == Horizon * Quantum

\* ------------------------------------------------------- program constants
DEBOUNCE_MS == 50
OUTPUT_DELAY_MS == 100
SIGNAL_TIMEOUT == 500
RESET_INTERVAL_MS == 200
OUTPUT_SIGNAL_TIMEOUT == 500
DefaultClockFrequency == 20
MinClockFrequency == 1
MaxClockFrequency == 100

\* ---------------------------------------------------------------- helpers
NoConn == "-"

EmptyMap == [k \in {} |-> 0]

MapPut(m, k, v) == [j \in (DOMAIN m) \cup {k} |-> IF j = k THEN v ELSE m[j]]

Max(a, b) == IF a >= b THEN a ELSE b

Min(a, b) == IF a <= b THEN a ELSE b

InSeq(s, v) == \E i \in 1..Len(s) : s[i] = v

\* Array.prototype.find / findIndex: the least index satisfying the test,
\* 0 when there is none.
FirstIndex(s, Test(_)) ==
  IF \E i \in 1..Len(s) : Test(s[i])
  THEN CHOOSE i \in 1..Len(s) : Test(s[i]) /\ \A j \in 1..(i-1) : ~Test(s[j])
  ELSE 0

\* Characters of the wire names that occur in the example netlists.
WireChars ==
  [w \in {"d", "c", "e", "q", "x", "clk_en"} |->
    CASE w = "d" -> <<"d">>
      [] w = "c" -> <<"c">>
      [] w = "e" -> <<"e">>
      [] w = "q" -> <<"q">>
      [] w = "x" -> <<"x">>
      [] w = "clk_en" -> <<"c", "l", "k", "_", "e", "n">>]

\* String.prototype.includes on wire names.
Includes(w, sub) ==
  LET s == WireChars[w]
  IN \E i \in 1..(Len(s) - Len(sub) + 1) :
       \A j \in 1..Len(sub) : s[i + j - 1] = sub[j]

IsFlipFlopType(t) == t \in {"DFF", "DFF_NE"}

\* elements.find(el => el.outputs.some(o => o.wireName === w))
SourceIndex(els, w) == FirstIndex(els, LAMBDA el : InSeq(el.outputs, w))

\* elements.find(el => el.inputs.some(i => i.wireName === w))
DestIndex(els, w) == FirstIndex(els, LAMBDA el : InSeq(el.inputs, w))

\* ------------------------------------------------------- IEEE 754 doubles
\* The numbers of the signal arithmetic are doubles that are multiples of
\* 2^-59 and lie below 2.0.  Such a number is held exactly as the natural
\* number of its units of 2^-59, written with two digits of radix 2^30.
Radix == 2^30

Fixed(h, l) == [hi |-> h, lo |-> l]

FixedAdd(a, b) ==
  LET l == a.lo + b.lo
  IN IF l >= Radix THEN Fixed(a.hi + b.hi + 1, l - Radix)
     ELSE Fixed(a.hi + b.hi, l)

\* a - b for a >= b.
FixedSub(a, b) ==
  IF a.lo >= b.lo THEN Fixed(a.hi - b.hi, a.lo - b.lo)
  ELSE Fixed(a.hi - b.hi - 1, (a.lo - b.lo) + Radix)

FixedLess(a, b) == a.hi < b.hi \/ (a.hi = b.hi /\ a.lo < b.lo)

FixedHalf(a) == Fixed(a.hi \div 2, (a.lo \div 2) + (a.hi % 2) * (Radix \div 2))

\* a * 2^k
RECURSIVE FixedShift(_, _)
FixedShift(a, k) == IF k = 0 THEN a ELSE FixedShift(FixedAdd(a, a), k - 1)

\* The quotient has 54 bits: the 53 of a double and the rounding bit.
QuotientFull(q) == ~FixedLess(q, Fixed(2^23, 0))

\* Long division: the bits of r / d after the leading bit, until the
\* quotient q is full; the remainder tells whether the quotient is exact.
RECURSIVE DivBits(_, _, _)
DivBits(r, d, q) ==
  IF QuotientFull(q) THEN [q |-> q, r |-> r]
  ELSE LET r2 == FixedAdd(r, r)
       IN IF FixedLess(r2, d) THEN DivBits(r2, d, FixedAdd(q, q))
          ELSE DivBits(FixedSub(r2, d), d, FixedAdd(FixedAdd(q, q), Fixed(0, 1)))

\* n / d in double arithmetic (round to nearest, ties to even), for n and d
\* in one common unit with n <= d < 128 n; the result is in units of 2^-59.
DoubleDiv(n, d) ==
  LET a == CHOOSE k \in 0..7 : /\ ~FixedLess(FixedShift(n, k), d)
                               /\ (k > 0 => FixedLess(FixedShift(n, k - 1), d))
      qr == DivBits(FixedSub(FixedShift(n, a), d), d, Fixed(0, 1))
      mant == FixedHalf(qr.q)
      up == qr.q.lo % 2 = 1 /\ (qr.r # Fixed(0, 0) \/ mant.lo % 2 = 1)
  IN FixedShift(IF up THEN FixedAdd(mant, Fixed(0, 1)) ELSE mant, 7 - a)

\* The number of bits of x.
RECURSIVE BitLen(_)
BitLen(x) == IF x = 0 THEN 0 ELSE 1 + BitLen(x \div 2)

\* The double nearest to x (ties to even): x keeps its 53 leading bits, the
\* k bits it has beyond 2^53 are rounded off.
RoundToDouble(x) ==
  LET k == BitLen(x.hi \div 2^23)
  IN IF k = 0 THEN x
     ELSE LET unit == 2^k
              q == x.lo \div unit
              low == x.lo % unit
              up == low * 2 > unit \/ (low * 2 = unit /\ q % 2 = 1)
              l2 == (IF up THEN q + 1 ELSE q) * unit
          IN IF l2 >= Radix THEN Fixed(x.hi + 1, l2 - Radix)
             ELSE Fixed(x.hi, l2)

\* a + b in double arithmetic, for a + b < 2.0.
DoubleAdd(a, b) == RoundToDouble(FixedAdd(a, b))

\* The doubles 0 and 1.0, and the double of the literal 0.01.
DoubleZero == Fixed(0, 0)

FullPosition == Fixed(2^29, 0)

Hundredth == DoubleDiv(Fixed(0, 1), Fixed(0, 100))

\* ------------------------------------------------------- example netlists
\* The value of a coordinate that the netlist does not give.
Undefined == -1

\* An element as the netlist gives it, without coordinates.
Elem(id, type, ins, outs) ==
  [id |-> id, type |-> type, inputs |-> ins, outputs |-> outs,
   x |-> Undefined, y |-> Undefined]

\* module_input and clk driving a flip-flop without enable, whose output
\* drives a lookup table.  The module_input also drives the third input
\* port of the flip-flop; connection "x" leaves the clk and reaches no element.
ExampleNE ==
  [elements |-> << Elem(1, "module_input", <<>>, <<"d", "e">>),
                   Elem(2, "clk", <<>>, <<"c", "x">>),
                   Elem(3, "DFF_NE", <<"d", "c", "e">>, <<"q">>),
                   Elem(4, "LUT_1", <<"q">>, <<>>) >>,
   connections |-> <<"d", "c", "e", "q", "x">>]

\* module_inputs and clk driving a flip-flop with enable, whose output is
\* wired to no element; connection "x" leaves the clk and reaches no element.
ExampleEN ==
  [elements |-> << Elem(1, "module_input", <<>>, <<"d">>),
                   Elem(2, "clk", <<>>, <<"c", "x">>),
                   Elem(3, "DFF", <<"d", "c", "e">>, <<"q">>),
                   Elem(5, "module_input", <<>>, <<"e">>) >>,
   connections |-> <<"d", "c", "e", "q", "x">>]

\* One module_input wired by one connection to one module_output, no clk.
ExampleIO ==
  [elements |-> << Elem(1, "module_input", <<>>, <<"d">>),
                   Elem(4, "module_output", <<"d">>, <<>>) >>,
   connections |-> <<"d">>]

\* The same with a clk element, whose connection reaches no element.
ExampleIOClk ==
  [elements |-> << Elem(1, "module_input", <<>>, <<"d">>),
                   Elem(4, "module_output", <<"d">>, <<>>),
                   Elem(2, "clk", <<>>, <<"c">>) >>,
   connections |-> <<"d", "c">>]

\* A flip-flop whose output feeds back, through a lookup table, into its own
\* D input.
ExampleCycle ==
  [elements |-> << Elem(1, "module_input", <<>>, <<"d">>),
                   Elem(2, "clk", <<>>, <<"c">>),
                   Elem(3, "DFF_NE", <<"x", "c">>, <<"q">>),
                   Elem(4, "LUT_2", <<"d", "q">>, <<"x">>) >>,
   connections |-> <<"d", "c", "q", "x">>]

\* Two lookup tables driving each other: no element is an input or a clk.
ExampleNoSource ==
  [elements |-> << Elem(3, "LUT_1", <<"x">>, <<"q">>),
                   Elem(4, "LUT_1", <<"q">>, <<"x">>) >>,
   connections |-> <<"q", "x">>]

\* A module_input driving two lookup tables, the first of which drives the
\* second.
ExampleChain ==
  [elements |-> << Elem(1, "module_input", <<>>, <<"d", "e">>),
                   Elem(3, "LUT_1", <<"d">>, <<"q">>),
                   Elem(4, "LUT_2", <<"e", "q">>, <<>>) >>,
   connections |-> <<"d", "e", "q">>]

\* Two flip-flops with enable, each enabled by a module_input of its own.
\* Both list the wires "d" and "c"; a signal reaches the first element that
\* lists its wire, so the clk drives the first flip-flop only.
ExampleTwoEN ==
  [elements |-> << Elem(1, "module_input", <<>>, <<"e">>),
                   Elem(2, "clk", <<>>, <<"c">>),
                   Elem(3, "DFF", <<"d", "c", "e">>, <<>>),
                   Elem(4, "DFF", <<"d", "c", "x">>, <<>>),
                   Elem(5, "module_input", <<>>, <<"x">>) >>,
   connections |-> <<"c", "e", "x">>]

\* A flip-flop with enable whose clock port is wired by the connection
\* "clk_en".
ExampleGatedClk ==
  [elements |-> << Elem(1, "module_input", <<>>, <<"d">>),
                   Elem(2, "clk", <<>>, <<"clk_en">>),
                   Elem(3, "DFF", <<"d", "clk_en", "e">>, <<>>),
                   Elem(5, "module_input", <<>>, <<"e">>) >>,
   connections |-> <<"d", "clk_en", "e">>]

\* module_input and clk driving a flip-flop with enable, whose output
\* drives a lookup table.  The module_input drives both D and enable.
ExampleLatch ==
  [elements |-> << Elem(1, "module_input", <<>>, <<"d", "e">>),
                   Elem(2, "clk", <<>>, <<"c">>),
                   Elem(3, "DFF", <<"d", "c", "e">>, <<"q">>),
                   Elem(4, "LUT_1", <<"q">>, <<>>) >>,
   connections |-> <<"d", "c", "e", "q">>]

\* A flip-flop with enable and one without, each with its D and enable
\* ports driven by the module_input; the clk reaches the first one.
ExampleTwoFF ==
  [elements |-> << Elem(1, "module_input", <<>>, <<"d", "e", "q", "x">>),
                   Elem(2, "clk", <<>>, <<"c">>),
                   Elem(3, "DFF", <<"d", "c", "e">>, <<>>),
                   Elem(4, "DFF_NE", <<"q", "c", "x">>, <<>>) >>,
   connections |-> <<"d", "c", "e", "q", "x">>]

\* A lookup table without input ports driving a module_output, next to the
\* flip-flop feedback loop of ExampleCycle.
ExampleConst ==
  [elements |-> << Elem(5, "LUT_1", <<>>, <<"e">>),
                   Elem(1, "module_output", <<"e">>, <<>>),
                   Elem(2, "clk", <<>>, <<"c">>),
                   Elem(3, "DFF_NE", <<"x", "c">>, <<"q">>),
                   Elem(4, "LUT_1", <<"q">>, <<"x">>) >>,
   connections |-> <<"e", "c", "q", "x">>]

Examples == <<ExampleNE, ExampleEN, ExampleIO, ExampleIOClk,
              ExampleCycle, ExampleNoSource, ExampleChain, ExampleTwoEN,
              ExampleGatedClk, ExampleLatch, ExampleTwoFF, ExampleConst>>

\* ---------------------------------------------------------- layout planner
HORIZONTAL_SPACING == 200
VERTICAL_SPACING == 100
LayoutOrigin == 100

\* Step 1 of arrangeElements: dependencyGraph[id] is the list of the ids
\* driven by element id, in the order of the connections.
RECURSIVE GraphFrom(_, _, _, _)
GraphFrom(els, conns, i, g) ==
  IF i > Len(conns) THEN g
  ELSE LET s == SourceIndex(els, conns[i])
           d == DestIndex(els, conns[i])
       IN IF s # 0 /\ d # 0
          THEN GraphFrom(els, conns, i + 1,
                         [g EXCEPT ![els[s].id] = Append(@, els[d].id)])
          ELSE GraphFrom(els, conns, i + 1, g)

DependencyGraph(els, conns) ==
  GraphFrom(els, conns, 1, [id \in {els[i].id : i \in 1..Len(els)} |-> <<>>])

\* Mutant of SourceLayer: an element without input ports is no source.
SourceLayerByType(els) ==
  LET src == SelectSeq(els, LAMBDA el : el.type = "module_input"
                                        \/ el.type = "clk")
  IN [i \in 1..Len(src) |-> src[i].id]

\* The ids of the elements of layer 0.
SourceLayer(els) ==
  LET src == SelectSeq(els, LAMBDA el : el.type = "module_input"
                                        \/ el.type = "clk"
                                        \/ Len(el.inputs) = 0)
  IN [i \in 1..Len(src) |-> src[i].id]

\* The ids of the elements that drive an input port of el.
InputElements(els, el) ==
  {els[SourceIndex(els, el.inputs[k])].id :
     k \in {j \in 1..Len(el.inputs) : SourceIndex(els, el.inputs[j]) # 0}}

\* The destinations reached from one layer, in visiting order.
RECURSIVE DestsOf(_, _, _)
DestsOf(graph, layer, i) ==
  IF i > Len(layer) THEN <<>>
  ELSE graph[layer[i]] \o DestsOf(graph, layer, i + 1)

\* Mutant of ExpandLayer: a destination put into the next layer is not
\* marked as visited.
RECURSIVE ExpandLayerNoMark(_, _, _, _, _)
ExpandLayerNoMark(els, dests, i, next, visited) ==
  IF i > Len(dests) THEN [next |-> next, visited |-> visited]
  ELSE LET destId == dests[i]
           e == FirstIndex(els, LAMBDA el : el.id = destId)
       IN IF destId \notin visited /\ e # 0
             /\ InputElements(els, els[e]) \subseteq visited
          THEN ExpandLayerNoMark(els, dests, i + 1, Append(next, destId),
                                 visited)
          ELSE ExpandLayerNoMark(els, dests, i + 1, next, visited)

\* One pass of the breadth-first loop over the destinations of a layer:
\* visited grows while the pass runs.
RECURSIVE ExpandLayer(_, _, _, _, _)
ExpandLayer(els, dests, i, next, visited) ==
  IF i > Len(dests) THEN [next |-> next, visited |-> visited]
  ELSE LET destId == dests[i]
           e == FirstIndex(els, LAMBDA el : el.id = destId)
       IN IF destId \notin visited /\ e # 0
             /\ InputElements(els, els[e]) \subseteq visited
          THEN ExpandLayer(els, dests, i + 1, Append(next, destId),
                           visited \cup {destId})
          ELSE ExpandLayer(els, dests, i + 1, next, visited)

RECURSIVE BuildLayers(_, _, _, _, _)
BuildLayers(els, graph, current, visited, layers) ==
  IF Len(current) = 0 THEN [layers |-> layers, visited |-> visited]
  ELSE LET r == ExpandLayer(els, DestsOf(graph, current, 1), 1, <<>>, visited)
       IN BuildLayers(els, graph, r.next, r.visited,
                      IF Len(r.next) > 0 THEN Append(layers, r.next) ELSE layers)

\* Mutant of LayersOf: the elements the expansion did not reach get no layer.
LayersOfNoCatchAll(els, conns) ==
  LET l0 == SourceLayer(els)
      v0 == {l0[i] : i \in 1..Len(l0)}
  IN BuildLayers(els, DependencyGraph(els, conns), l0, v0, <<l0>>).layers

\* Step 2 of arrangeElements: the layers, the catch-all layer included.
LayersOf(els, conns) ==
  LET l0 == SourceLayer(els)
      v0 == {l0[i] : i \in 1..Len(l0)}
      r == BuildLayers(els, DependencyGraph(els, conns), l0, v0, <<l0>>)
      ids == [i \in 1..Len(els) |-> els[i].id]
      remaining == SelectSeq(ids, LAMBDA id : id \notin r.visited)
  IN IF Len(remaining) > 0 THEN Append(r.layers, remaining) ELSE r.layers

\* Mutant of PlaceLayers: the position is an offset from the current one.
RECURSIVE PlaceLayersRelative(_, _, _, _)
PlaceLayersRelative(els, layers, l, s) ==
  IF l > Len(layers) THEN els
  ELSE IF s > Len(layers[l]) THEN PlaceLayersRelative(els, layers, l + 1, 1)
  ELSE LET e == FirstIndex(els, LAMBDA el : el.id = layers[l][s])
           placed == IF e = 0 THEN els
                     ELSE [els EXCEPT ![e].x = @ + LayoutOrigin + (l - 1) * HORIZONTAL_SPACING,
                                      ![e].y = @ + LayoutOrigin + (s - 1) * VERTICAL_SPACING]
       IN PlaceLayersRelative(placed, layers, l, s + 1)

\* Step 3 of arrangeElements: the element with the id of slot s of layer l
\* (first match) gets its position; later assignments overwrite earlier ones.
RECURSIVE PlaceLayers(_, _, _, _)
PlaceLayers(els, layers, l, s) ==
  IF l > Len(layers) THEN els
  ELSE IF s > Len(layers[l]) THEN PlaceLayers(els, layers, l + 1, 1)
  ELSE LET e == FirstIndex(els, LAMBDA el : el.id = layers[l][s])
           placed == IF e = 0 THEN els
                     ELSE [els EXCEPT ![e].x = LayoutOrigin + (l - 1) * HORIZONTAL_SPACING,
                                      ![e].y = LayoutOrigin + (s - 1) * VERTICAL_SPACING]
       IN PlaceLayers(placed, layers, l, s + 1)

arrangeElements(els, conns) ==
  IF Len(els) = 0 THEN els
  ELSE PlaceLayers(els, LayersOf(els, conns), 1, 1)

\* ------------------------------------------------------------------ state
VARIABLES
  elements,              \* useState<IElement[]>
  connections,           \* useState<IConnection[]>, by name
  runningSimulation,     \* useState<boolean>
  clockFrequency,        \* useState<number>
  activeSignals,         \* useState<Signal[]>
  flipFlopStates,        \* useState<FlipFlopState[]>
  activeInputs,          \* useState<number[]>, as a set of ids
  activeOutputs,         \* useState<{[id]: number}>
  activeFlipFlopInputs,  \* useState<{[id]: {D, En, lastEnUpdateTime}}>
  simTimers,             \* clockInterval and signalInterval are set
  resetInterval,         \* the enable-expiry interval is set
  resetOutputsInterval,  \* the output-expiry interval is set
  pending,               \* outstanding setTimeout callbacks of handleSignalArrival
  now,                   \* performance.now()
  event                  \* the step that led to this state

vars == << elements, connections, runningSimulation, clockFrequency,
           activeSignals, flipFlopStates, activeInputs, activeOutputs,
           activeFlipFlopInputs, simTimers, resetInterval,
           resetOutputsInterval, pending, now, event >>

Ev(op) == [op |-> op, arrivals |-> <<>>, conn |-> NoConn, occupied |-> FALSE,
           before |-> <<>>, input |-> <<>>]

\* ---------------------------------------------------------------- effects
\* useEffect([elements]): flip-flop state initialisation.
InitFlipFlopStates(els) ==
  LET ffs == SelectSeq(els, LAMBDA el : IsFlipFlopType(el.type))
  IN [i \in 1..Len(ffs) |->
        [id |-> ffs[i].id, hasD |-> FALSE, hasEn |-> (ffs[i].type = "DFF_NE"),
         outputValue |-> FALSE, lastClockTime |-> 0, type |-> ffs[i].type]]

\* useEffect([elements]): active flip-flop inputs tracker initialisation.
InitFlipFlopInputs(els) ==
  LET ids == {els[i].id : i \in {j \in 1..Len(els) : IsFlipFlopType(els[j].type)}}
      typeOf(id) == els[FirstIndex(els, LAMBDA el : el.id = id /\ IsFlipFlopType(el.type))].type
  IN [id \in ids |-> [D |-> FALSE, En |-> (typeOf(id) = "DFF_NE"), lastEnUpdateTime |-> 0]]

\* The simulation effect: whether it sets clockInterval and signalInterval.
SimTimersSet(running, els) ==
  running /\ \E i \in 1..Len(els) : els[i].type = "clk"

\* Mutant of SimEffectSignals: every run of the effect clears the signals.
SimEffectClears(running, sigs) == <<>>

\* The simulation effect: the active signals it leaves.
SimEffectSignals(running, sigs) == IF running THEN sigs ELSE <<>>

\* Mutant of ClampFrequency: no lower limit.
ClampFrequencyUpperOnly(f) == Min(MaxClockFrequency, f)

\* handleClockFrequencyChange
ClampFrequency(f) == Max(MinClockFrequency, Min(MaxClockFrequency, f))

\* ------------------------------------------------------- arrival dispatch
NoFF == [id |-> 0, hasD |-> FALSE, hasEn |-> FALSE, outputValue |-> FALSE,
         lastClockTime |-> 0, type |-> "none"]

DefaultFlipFlopInputs == [D |-> FALSE, En |-> FALSE, lastEnUpdateTime |-> 0]

\* The role handleSignalArrival gives the input port that wire w is wired to:
\* the if / else-if chain tests D first, then enable, then clock.
PortKind(el, w) ==
  LET portIndex == FirstIndex(el.inputs, LAMBDA n : n = w) - 1
      isClockInput == portIndex = 1 \/ Includes(w, <<"c", "l", "k">>)
      isDInput == portIndex = 0 \/ Includes(w, <<"D">>)
      isEnInput == portIndex = 2 \/ Includes(w, <<"e", "n">>)
  IN IF isDInput THEN "D"
     ELSE IF isEnInput THEN "En"
     ELSE IF isClockInput THEN "clk"
     ELSE "none"

\* Mutant of Debounced: the debounce never drops an edge.
DebouncedNever(ff, t) == t - ff.lastClockTime < 0

\* A clock arrival at time t is dropped by the debounce.
Debounced(ff, t) == t - ff.lastClockTime < DEBOUNCE_MS

\* Mutant of ShouldUpdateOutput: the enable is not consulted.
ShouldUpdateAlways(ff) == ff.type = "DFF_NE" \/ ff.type = "DFF"

\* shouldUpdateOutput
ShouldUpdateOutput(ff) == ff.type = "DFF_NE" \/ (ff.type = "DFF" /\ ff.hasEn)

\* Mutant of ClockEdge: the pending D survives the edge.
ClockEdgeKeepsD(ff, t) ==
  [ff EXCEPT !.lastClockTime = t,
             !.outputValue = IF ShouldUpdateOutput(ff) THEN ff.hasD ELSE @]

\* The flip-flop state after an accepted clock edge at time t.
ClockEdge(ff, t) ==
  [ff EXCEPT !.lastClockTime = t,
             !.outputValue = IF ShouldUpdateOutput(ff) THEN ff.hasD ELSE @,
             !.hasD = FALSE]

\* Mutant of SchedulesEmission: the latched value is not consulted.
SchedulesEmissionAnyValue(ff) == ShouldUpdateOutput(ff)

\* Mutant of SchedulesEmission: the enable is not consulted.
SchedulesEmissionAnyD(ff) == ff.hasD

\* The accepted clock edge sets a timeout for an output emission.
SchedulesEmission(ff) == ShouldUpdateOutput(ff) /\ ff.hasD

\* The connection on which the timeout callback of flip-flop id adds a
\* signal, NoConn when it adds none.  The callback reads the elements and
\* connections of the render in which the arrival was handled.
DeferredConn(els, conns, id) ==
  LET c == FirstIndex(conns, LAMBDA w :
             \E i \in 1..Len(els) : els[i].id = id /\ InSeq(els[i].outputs, w))
  IN IF c = 0 THEN NoConn
     ELSE IF FirstIndex(els, LAMBDA el : el.id = id) = 0
             \/ DestIndex(els, conns[c]) = 0
          THEN NoConn
          ELSE conns[c]

\* Mutant of EnableArrival: the time of the arrival is not recorded.
EnableArrivalNoStamp(old, t) == [old EXCEPT !.En = TRUE]

\* The tracker entry an arrival at the enable port of a DFF leaves.
EnableArrival(old, t) == [old EXCEPT !.En = TRUE, !.lastEnUpdateTime = t]

\* Mutant of DArrival: the D arrival asserts the enable as well.
DArrivalSetsEnable(ff) == [ff EXCEPT !.hasD = TRUE, !.hasEn = TRUE]

\* The flip-flop state after an arrival at the D port.
DArrival(ff) == [ff EXCEPT !.hasD = TRUE]

\* handleSignalArrival(signal) applied to the state st at time t.
\* st = [ff, inp, outs, pend, log]: flipFlopStates, activeFlipFlopInputs,
\* activeOutputs, pending timeouts and the record of the dispatches.
\* A timeout whose callback adds no signal (DeferredConn is NoConn) changes
\* nothing when it fires; it is recorded in the log only, not in pend.
handleSignalArrival(st, sig, els, conns, t) ==
  LET w == sig.connectionName
      d == DestIndex(els, w)
      entry == [connectionName |-> w, position |-> sig.position, dest |-> 0,
                kind |-> "nodest", accepted |-> FALSE, scheduled |-> FALSE,
                before |-> NoFF, after |-> NoFF]
  IN IF d = 0 THEN [st EXCEPT !.log = Append(@, entry)]
     ELSE
       LET el == els[d]
           f == FirstIndex(st.ff, LAMBDA ff : ff.id = el.id)
       IN IF el.type = "module_output"
          THEN [st EXCEPT !.outs = MapPut(@, el.id, t),
                          !.log = Append(@, [entry EXCEPT !.dest = el.id,
                                                          !.kind = "output"])]
          ELSE IF ~IsFlipFlopType(el.type) \/ f = 0
          THEN [st EXCEPT !.log = Append(@, [entry EXCEPT !.dest = el.id,
                                                          !.kind = "other"])]
          ELSE
            LET ff == st.ff[f]
                kind == PortKind(el, w)
                e2 == [entry EXCEPT !.dest = el.id, !.kind = kind, !.before = ff]
            IN CASE kind = "D" ->
                 LET nf == DArrival(ff)
                 IN [st EXCEPT !.ff[f] = nf,
                               !.log = Append(@, [e2 EXCEPT !.after = nf])]
               [] kind = "En" ->
                 IF el.type = "DFF"
                 THEN LET nf == [ff EXCEPT !.hasEn = TRUE]
                          old == IF el.id \in DOMAIN st.inp THEN st.inp[el.id]
                                 ELSE DefaultFlipFlopInputs
                      IN [st EXCEPT !.ff[f] = nf,
                                    !.inp = MapPut(@, el.id, EnableArrival(old, t)),
                                    !.log = Append(@, [e2 EXCEPT !.after = nf])]
                 ELSE [st EXCEPT !.log = Append(@, [e2 EXCEPT !.after = ff])]
               [] kind = "clk" ->
                 IF Debounced(ff, t)
                 THEN [st EXCEPT !.log = Append(@, [e2 EXCEPT !.after = ff])]
                 ELSE LET nf == ClockEdge(ff, t)
                          sched == SchedulesEmission(ff)
                      IN [st EXCEPT !.ff[f] = nf,
                                    !.pend = IF sched /\ DeferredConn(els, conns, el.id) # NoConn
                                             THEN Append(@, [id |-> el.id,
                                                    due |-> t + OUTPUT_DELAY_MS,
                                                    conn |-> DeferredConn(els, conns, el.id)])
                                             ELSE @,
                                    !.log = Append(@, [e2 EXCEPT !.after = nf,
                                                                 !.accepted = TRUE,
                                                                 !.scheduled = sched])]
               [] OTHER ->
                 [st EXCEPT !.log = Append(@, [e2 EXCEPT !.after = ff])]

\* signalSpeed = 1 / clockFrequency
signalSpeed(freq) == DoubleDiv(Fixed(0, 1), Fixed(0, freq))

\* 0.01 / signalSpeed for each frequency the clamp lets through.
SignalSteps ==
  [f \in MinClockFrequency..MaxClockFrequency |->
     DoubleDiv(Hundredth, signalSpeed(f))]

\* The advancement step of a signal: 0.01 / signalSpeed.
SignalStep(freq) == SignalSteps[freq]

\* newPosition = signal.position + 0.01 / signalSpeed
NewPosition(sig, freq) == DoubleAdd(sig.position, SignalStep(freq))

\* Mutant of Arrives: reaching 1.0 exactly is not an arrival.
ArrivesStrict(sig, freq) ==
  /\ FixedLess(sig.position, FullPosition)
  /\ FixedLess(FullPosition, NewPosition(sig, freq))

\* The signal completes in this advancement tick.
Arrives(sig, freq) ==
  /\ FixedLess(sig.position, FullPosition)
  /\ ~FixedLess(NewPosition(sig, freq), FullPosition)

\* The dispatches of one advancement tick, in the order of the signal list.
RECURSIVE DispatchAll(_, _, _, _, _, _, _)
DispatchAll(st, sigs, i, freq, els, conns, t) ==
  IF i > Len(sigs) THEN st
  ELSE DispatchAll(IF Arrives(sigs[i], freq)
                   THEN handleSignalArrival(st, sigs[i], els, conns, t)
                   ELSE st,
                   sigs, i + 1, freq, els, conns, t)

\* Mutant of AdvanceSignals: a signal that reaches 1.0 exactly is kept.
AdvanceSignalsKeepFull(sigs, freq) ==
  SelectSeq([i \in 1..Len(sigs) |->
               [sigs[i] EXCEPT !.position = NewPosition(sigs[i], freq)]],
            LAMBDA s : ~FixedLess(FullPosition, s.position))

\* The signal list after one advancement tick.
AdvanceSignals(sigs, freq) ==
  SelectSeq([i \in 1..Len(sigs) |->
               [sigs[i] EXCEPT !.position = NewPosition(sigs[i], freq)]],
            LAMBDA s : FixedLess(s.position, FullPosition))

\* ---------------------------------------------------------- emission tick
SignalExists(sigs, w) == \E i \in 1..Len(sigs) : sigs[i].connectionName = w

\* clockConnections of the simulation effect.
ClockConnections(els, conns) ==
  LET c == FirstIndex(els, LAMBDA el : el.type = "clk")
  IN IF c = 0 THEN <<>>
     ELSE SelectSeq(conns, LAMBDA w :
            SourceIndex(els, w) # 0 /\ els[SourceIndex(els, w)].id = els[c].id)

\* Mutant of InputConnections: the active-input set is not consulted.
InputConnectionsAll(els, conns, inputs) ==
  SelectSeq(conns, LAMBDA w :
    SourceIndex(els, w) # 0
    /\ els[SourceIndex(els, w)].type = "module_input")

\* inputConnections of the emission tick.
InputConnections(els, conns, inputs) ==
  SelectSeq(conns, LAMBDA w :
    SourceIndex(els, w) # 0
    /\ els[SourceIndex(els, w)].type = "module_input"
    /\ els[SourceIndex(els, w)].id \in inputs)

\* Mutant of EmitOn: the connection is not checked for a signal in flight.
EmitOnUnchecked(sigs, els, w) ==
  IF SourceIndex(els, w) # 0 /\ DestIndex(els, w) # 0
  THEN Append(sigs, [connectionName |-> w, position |-> DoubleZero])
  ELSE sigs

\* Mutant of EmitOn: source and destination are not resolved.
EmitOnUnresolved(sigs, els, w) ==
  IF SignalExists(sigs, w) THEN sigs
  ELSE Append(sigs, [connectionName |-> w, position |-> DoubleZero])

\* The emission on one connection: suppressed when a signal is present or
\* when source or destination does not resolve.
EmitOn(sigs, els, w) ==
  IF SignalExists(sigs, w) THEN sigs
  ELSE IF SourceIndex(els, w) # 0 /\ DestIndex(els, w) # 0
       THEN Append(sigs, [connectionName |-> w, position |-> DoubleZero])
       ELSE sigs

RECURSIVE EmitAll(_, _, _, _)
EmitAll(sigs, els, sources, i) ==
  IF i > Len(sources) THEN sigs
  ELSE EmitAll(EmitOn(sigs, els, sources[i]), els, sources, i + 1)

\* ------------------------------------------------------------------- Init
Init ==
  /\ elements = <<>>
  /\ connections = <<>>
  /\ runningSimulation = FALSE
  /\ clockFrequency = DefaultClockFrequency
  /\ activeSignals = <<>>
  /\ flipFlopStates = <<>>
  /\ activeInputs = {}
  /\ activeOutputs = EmptyMap
  /\ activeFlipFlopInputs = EmptyMap
  /\ simTimers = FALSE
  /\ resetInterval = FALSE
  /\ resetOutputsInterval = FALSE
  /\ pending = <<>>
  /\ now = Quantum
  /\ event = Ev("init")

\* The elements of each example as the load-data effect stores them.
ArrangedExamples ==
  [i \in 1..Len(Examples) |->
     arrangeElements(Examples[i].elements, Examples[i].connections)]

\* ---------------------------------------------------------------- actions
\* Mutant of LoadNetlist: a missing netlist leaves the connections.
LoadNetlistKeepsConnections(i) ==
  LET els == IF i = 0 THEN <<>> ELSE ArrangedExamples[i]
      conns == IF i = 0 THEN connections ELSE Examples[i].connections
  IN /\ elements' = els
     /\ connections' = conns
     /\ flipFlopStates' = InitFlipFlopStates(els)
     /\ activeFlipFlopInputs' = InitFlipFlopInputs(els)
     /\ activeSignals' = SimEffectSignals(runningSimulation, activeSignals)
     /\ simTimers' = SimTimersSet(runningSimulation, els)
     /\ event' = Ev("other")
     /\ UNCHANGED << runningSimulation, clockFrequency, activeInputs,
                     activeOutputs, resetInterval, resetOutputsInterval,
                     pending, now >>

\* The load-data effect: example i becomes the active one; 0 stands for an
\* active tab that no example with a netlist matches.
LoadNetlist(i) ==
  LET els == IF i = 0 THEN <<>>
             ELSE ArrangedExamples[i]
      conns == IF i = 0 THEN <<>> ELSE Examples[i].connections
  IN /\ elements' = els
     /\ connections' = conns
     /\ flipFlopStates' = InitFlipFlopStates(els)
     /\ activeFlipFlopInputs' = InitFlipFlopInputs(els)
     /\ activeSignals' = SimEffectSignals(runningSimulation, activeSignals)
     /\ simTimers' = SimTimersSet(runningSimulation, els)
     /\ event' = Ev("other")
     /\ UNCHANGED << runningSimulation, clockFrequency, activeInputs,
                     activeOutputs, resetInterval, resetOutputsInterval,
                     pending, now >>

\* playing becomes true.
StartSimulation ==
  /\ ~runningSimulation
  /\ runningSimulation' = TRUE
  /\ simTimers' = SimTimersSet(TRUE, elements)
  /\ resetInterval' = TRUE
  /\ resetOutputsInterval' = TRUE
  /\ activeSignals' = SimEffectSignals(TRUE, activeSignals)
  /\ event' = Ev("other")
  /\ UNCHANGED << elements, connections, clockFrequency, flipFlopStates,
                  activeInputs, activeOutputs, activeFlipFlopInputs, pending, now >>

\* playing becomes false.
StopSimulation ==
  /\ runningSimulation
  /\ runningSimulation' = FALSE
  /\ simTimers' = SimTimersSet(FALSE, elements)
  /\ resetInterval' = FALSE
  /\ resetOutputsInterval' = FALSE
  /\ activeSignals' = SimEffectSignals(FALSE, activeSignals)
  /\ activeOutputs' = EmptyMap
  /\ event' = Ev("other")
  /\ UNCHANGED << elements, connections, clockFrequency, flipFlopStates,
                  activeInputs, activeFlipFlopInputs, pending, now >>

\* Mutant of ResetFlipFlop: the latched output survives the reset.
ResetFlipFlopKeepsOutput(ff) ==
  [ff EXCEPT !.hasD = FALSE, !.hasEn = (ff.type = "DFF_NE"),
             !.lastClockTime = 0]

\* The flip-flop state the reset effect leaves.
ResetFlipFlop(ff) ==
  [ff EXCEPT !.hasD = FALSE, !.hasEn = (ff.type = "DFF_NE"),
             !.outputValue = FALSE, !.lastClockTime = 0]

\* resetTriggered becomes true: both reset effects run, and the new
\* activeInputs array re-runs the simulation effect.
ResetTriggered ==
  /\ flipFlopStates' = [i \in 1..Len(flipFlopStates) |-> ResetFlipFlop(flipFlopStates[i])]
  /\ activeInputs' = {}
  /\ activeOutputs' = EmptyMap
  /\ activeSignals' = SimEffectSignals(runningSimulation, activeSignals)
  /\ event' = Ev("reset")
  /\ UNCHANGED << elements, connections, runningSimulation, clockFrequency,
                  activeFlipFlopInputs, simTimers, resetInterval,
                  resetOutputsInterval, pending, now >>

\* handleMouseUp on a module_input that was clicked and not dragged.
ToggleInput(id) ==
  /\ \E i \in 1..Len(elements) : elements[i].id = id /\ elements[i].type = "module_input"
  /\ activeInputs' = IF id \in activeInputs THEN activeInputs \ {id}
                     ELSE activeInputs \cup {id}
  /\ activeSignals' = SimEffectSignals(runningSimulation, activeSignals)
  /\ event' = Ev("other")
  /\ UNCHANGED << elements, connections, runningSimulation, clockFrequency,
                  flipFlopStates, activeOutputs, activeFlipFlopInputs, simTimers,
                  resetInterval, resetOutputsInterval, pending, now >>

\* handleClockFrequencyChange(req); an unchanged value re-runs no effect.
ChangeFrequency(req) ==
  /\ clockFrequency' = ClampFrequency(req)
  /\ activeSignals' = IF clockFrequency' = clockFrequency THEN activeSignals
                      ELSE SimEffectSignals(runningSimulation, activeSignals)
  /\ event' = Ev("other")
  /\ UNCHANGED << elements, connections, runningSimulation, flipFlopStates,
                  activeInputs, activeOutputs, activeFlipFlopInputs, simTimers,
                  resetInterval, resetOutputsInterval, pending, now >>

\* clockInterval fires.
EmissionTick ==
  /\ simTimers
  /\ activeSignals' = EmitAll(activeSignals, elements,
                              ClockConnections(elements, connections)
                                \o InputConnections(elements, connections, activeInputs),
                              1)
  /\ event' = Ev("emit")
  /\ UNCHANGED << elements, connections, runningSimulation, clockFrequency,
                  flipFlopStates, activeInputs, activeOutputs,
                  activeFlipFlopInputs, simTimers, resetInterval,
                  resetOutputsInterval, pending, now >>

\* signalInterval fires.
AdvanceTick ==
  LET st == DispatchAll([ff |-> flipFlopStates, inp |-> activeFlipFlopInputs,
                         outs |-> activeOutputs, pend |-> pending, log |-> <<>>],
                        activeSignals, 1, clockFrequency, elements, connections, now)
  IN /\ simTimers
     /\ Len(st.pend) <= MaxPending
     /\ activeSignals' = AdvanceSignals(activeSignals, clockFrequency)
     /\ flipFlopStates' = st.ff
     /\ activeFlipFlopInputs' = st.inp
     /\ activeOutputs' = st.outs
     /\ pending' = st.pend
     /\ event' = [Ev("advance") EXCEPT !.arrivals = st.log]
     /\ UNCHANGED << elements, connections, runningSimulation, clockFrequency,
                     activeInputs, simTimers, resetInterval,
                     resetOutputsInterval, now >>

\* The timeout callback set by handleSignalArrival fires.  All timeouts have
\* the same delay, so they fire in the order in which they were set.
DeferredEmission(i) ==
  LET w == pending[i].conn
  IN /\ i = 1
     /\ pending[i].due <= now
     /\ w # NoConn =>
          Cardinality({k \in 1..Len(activeSignals) :
                         activeSignals[k].connectionName = w}) < MaxPerWire
     /\ activeSignals' = IF w = NoConn THEN activeSignals
                         ELSE Append(activeSignals,
                                     [connectionName |-> w, position |-> DoubleZero])
     /\ pending' = [k \in 1..(Len(pending) - 1) |->
                      IF k < i THEN pending[k] ELSE pending[k + 1]]
     /\ event' = [Ev("deferred") EXCEPT !.conn = w,
                     !.occupied = (w # NoConn /\ SignalExists(activeSignals, w))]
     /\ UNCHANGED << elements, connections, runningSimulation, clockFrequency,
                     flipFlopStates, activeInputs, activeOutputs,
                     activeFlipFlopInputs, simTimers, resetInterval,
                     resetOutputsInterval, now >>

\* Mutant of EnableStale: flip-flops without enable are not skipped.
EnableStaleAnyType(ff, inp, t) ==
  /\ ff.id \in DOMAIN inp
  /\ inp[ff.id].En
  /\ t - inp[ff.id].lastEnUpdateTime > SIGNAL_TIMEOUT

\* The enable of flip-flop ff is stale at time t.
EnableStale(ff, inp, t) ==
  /\ ff.type # "DFF_NE"
  /\ ff.id \in DOMAIN inp
  /\ inp[ff.id].En
  /\ t - inp[ff.id].lastEnUpdateTime > SIGNAL_TIMEOUT

\* The latest time at which an enable arrival changed activeFlipFlopInputs,
\* 0 when none did since the elements were loaded.
LastTrackerUpdate(inp) ==
  IF DOMAIN inp = {} THEN 0
  ELSE LET latest == CHOOSE id \in DOMAIN inp :
                       \A other \in DOMAIN inp :
                         inp[other].lastEnUpdateTime <= inp[id].lastEnUpdateTime
       IN inp[latest].lastEnUpdateTime

\* resetInterval fires: the enable-expiry sweep.  The effect that owns the
\* interval depends on activeFlipFlopInputs: every change of the tracker
\* clears the interval and sets a new one, which first fires 200 ms later.
\* An enable arrival is such a change, and its time is in the tracker.  The
\* other changes (a load, a deassertion by the sweep) and the start of the
\* simulation leave no time in the state: after them the interval may fire
\* at any moment.
EnableSweep ==
  /\ resetInterval
  /\ now - LastTrackerUpdate(activeFlipFlopInputs) >= RESET_INTERVAL_MS
  /\ flipFlopStates' =
       [i \in 1..Len(flipFlopStates) |->
          IF EnableStale(flipFlopStates[i], activeFlipFlopInputs, now)
          THEN [flipFlopStates[i] EXCEPT !.hasEn = FALSE]
          ELSE flipFlopStates[i]]
  /\ activeFlipFlopInputs' =
       [id \in DOMAIN activeFlipFlopInputs |->
          IF \E i \in 1..Len(flipFlopStates) :
               flipFlopStates[i].id = id
               /\ EnableStale(flipFlopStates[i], activeFlipFlopInputs, now)
          THEN [activeFlipFlopInputs[id] EXCEPT !.En = FALSE]
          ELSE activeFlipFlopInputs[id]]
  /\ event' = Ev("other")
  /\ UNCHANGED << elements, connections, runningSimulation, clockFrequency,
                  activeSignals, activeInputs, activeOutputs, simTimers,
                  resetInterval, resetOutputsInterval, pending, now >>

\* Mutant of OutputStale: an entry is stale as soon as it is stamped.
OutputStaleAtOnce(stamp, t) == t - stamp >= 0

\* The entry stamped at time stamp has timed out at time t.
OutputStale(stamp, t) == t - stamp > OUTPUT_SIGNAL_TIMEOUT

\* resetOutputsInterval fires: the output-expiry sweep.
OutputSweep ==
  /\ resetOutputsInterval
  /\ activeOutputs' =
       LET keep == {id \in DOMAIN activeOutputs :
                      ~OutputStale(activeOutputs[id], now)}
       IN [id \in keep |-> activeOutputs[id]]
  /\ event' = IF DOMAIN activeOutputs' # DOMAIN activeOutputs
              THEN Ev("expire") ELSE Ev("other")
  /\ UNCHANGED << elements, connections, runningSimulation, clockFrequency,
                  activeSignals, flipFlopStates, activeInputs,
                  activeFlipFlopInputs, simTimers, resetInterval,
                  resetOutputsInterval, pending, now >>

\* Time passes.
TimePasses ==
  /\ now + Quantum <= MaxTime
  /\ now' = now + Quantum
  /\ event' = Ev("other")
  /\ UNCHANGED << elements, connections, runningSimulation, clockFrequency,
                  activeSignals, flipFlopStates, activeInputs, activeOutputs,
                  activeFlipFlopInputs, simTimers, resetInterval,
                  resetOutputsInterval, pending >>

\* [...elements]: slot i of the new array holds the reference that slot i of
\* the argument holds; the element objects are not copied.
SpreadCopy(refs) == [i \in 1..Len(refs) |-> refs[i]]

\* The elements the caller's array holds once arrangeElements(els, conns)
\* has returned.  The caller's slot i refers to object i; the position
\* assignment writes the objects that the slots of the copy refer to.
CallerElementsAfter(els, conns) ==
  LET callerRefs == [i \in 1..Len(els) |-> i]
      arrangedRefs == SpreadCopy(callerRefs)
      result == arrangeElements(els, conns)
      object(r) == IF \E i \in 1..Len(arrangedRefs) : arrangedRefs[i] = r
                   THEN result[CHOOSE i \in 1..Len(arrangedRefs) : arrangedRefs[i] = r]
                   ELSE els[r]
  IN [i \in 1..Len(els) |-> object(callerRefs[i])]

\* handleMouseMove while element id is dragged: the cursor puts it at p.
DragElement(id, p) ==
  /\ \E i \in 1..Len(elements) : elements[i].id = id
  /\ elements' = [i \in 1..Len(elements) |->
                    IF elements[i].id = id
                    THEN [elements[i] EXCEPT !.x = p[1], !.y = p[2]]
                    ELSE elements[i]]
  /\ flipFlopStates' = InitFlipFlopStates(elements')
  /\ activeFlipFlopInputs' = InitFlipFlopInputs(elements')
  /\ activeSignals' = SimEffectSignals(runningSimulation, activeSignals)
  /\ simTimers' = SimTimersSet(runningSimulation, elements')
  /\ event' = Ev("other")
  /\ UNCHANGED << connections, runningSimulation, clockFrequency, activeInputs,
                  activeOutputs, resetInterval, resetOutputsInterval,
                  pending, now >>

\* handleAutoArrange
AutoArrange ==
  /\ elements' = arrangeElements(elements, connections)
  /\ flipFlopStates' = InitFlipFlopStates(elements')
  /\ activeFlipFlopInputs' = InitFlipFlopInputs(elements')
  /\ activeSignals' = SimEffectSignals(runningSimulation, activeSignals)
  /\ simTimers' = SimTimersSet(runningSimulation, elements')
  /\ event' = [Ev("arrange") EXCEPT
                 !.before = elements,
                 !.input = CallerElementsAfter(elements, connections)]
  /\ UNCHANGED << connections, runningSimulation, clockFrequency, activeInputs,
                  activeOutputs, resetInterval, resetOutputsInterval,
                  pending, now >>

ElementIds == 1..5

\* The positions the cursor drags an element to in the checked runs.
DragPositions == {<<0, 0>>, <<300, 100>>}

\* The frequencies requested through the action bar in the checked runs.
FrequencyRequests == {50, 150}

\* The steps every netlist shares.
Commands ==
  \/ StartSimulation
  \/ StopSimulation
  \/ ResetTriggered
  \/ \E id \in ElementIds : ToggleInput(id)
  \/ \E req \in FrequencyRequests : ChangeFrequency(req)

Timers ==
  \/ EmissionTick
  \/ AdvanceTick
  \/ EnableSweep
  \/ OutputSweep
  \/ TimePasses

Next ==
  \/ \E i \in 0..Len(Examples) : LoadNetlist(i)
  \/ Commands
  \/ Timers
  \/ \E i \in 1..Len(pending) : DeferredEmission(i)
  \/ \E id \in ElementIds, p \in DragPositions : DragElement(id, p)
  \/ AutoArrange

\* The component as constructed, run on any of the examples.
Spec == Init /\ [][Next]_vars

\* The state after construction and a first frequency request.
InitRun ==
  \E req \in FrequencyRequests :
    /\ elements = <<>>
    /\ connections = <<>>
    /\ runningSimulation = FALSE
    /\ clockFrequency = ClampFrequency(req)
    /\ activeSignals = <<>>
    /\ flipFlopStates = <<>>
    /\ activeInputs = {}
    /\ activeOutputs = EmptyMap
    /\ activeFlipFlopInputs = EmptyMap
    /\ simTimers = FALSE
    /\ resetInterval = FALSE
    /\ resetOutputsInterval = FALSE
    /\ pending = <<>>
    /\ now = Quantum
    /\ event = Ev("init")

\* Runs on the flip-flop without enable (or on no netlist).
NextNE ==
  \/ \E i \in {0, 1} : LoadNetlist(i)
  \/ Commands
  \/ Timers
  \/ \E i \in 1..Len(pending) : DeferredEmission(i)

SpecNE == InitRun /\ [][NextNE]_vars

\* Runs on the flip-flop with enable; its output is wired to no element, so
\* no timeout callback is outstanding in these runs.
NextEN ==
  \/ LoadNetlist(2)
  \/ Commands
  \/ Timers

SpecEN == InitRun /\ [][NextEN]_vars

\* The canvas edited while the simulation is stopped: netlists are loaded,
\* elements are dragged and the layout is recomputed.
NextLayout ==
  \/ \E i \in {0, 1, 5, 6, 7, 12} : LoadNetlist(i)
  \/ \E id \in ElementIds, p \in DragPositions : DragElement(id, p)
  \/ AutoArrange

SpecLayout == Init /\ [][NextLayout]_vars

\* The frequencies requested through the action bar: below, within and
\* above the limits.
FrequencyValues == {-5, 0, 37, 100, 101, 150}

\* The action bar used, from construction on, while no interval fires.
NextFrequency ==
  \/ \E i \in {0, 3, 4} : LoadNetlist(i)
  \/ StartSimulation
  \/ StopSimulation
  \/ ResetTriggered
  \/ \E id \in ElementIds : ToggleInput(id)
  \/ \E req \in FrequencyValues : ChangeFrequency(req)
  \/ TimePasses

SpecFrequency == Init /\ [][NextFrequency]_vars

\* Runs on the input-to-output netlist, without and with a clk element.
NextIO ==
  \/ \E i \in {3, 4} : LoadNetlist(i)
  \/ Commands
  \/ Timers

SpecIO == InitRun /\ [][NextIO]_vars

\* Runs on the two flip-flops with enable.
NextSweep ==
  \/ LoadNetlist(8)
  \/ Commands
  \/ Timers

SpecSweep == InitRun /\ [][NextSweep]_vars

\* The frequencies of the runs that count advancement ticks: the default
\* one, a lower and a higher one.
TraversalFrequencies == {10, DefaultClockFrequency, 50}

\* The state after construction, the frequency left as it is or requested
\* once.
InitTraversal ==
  \E req \in TraversalFrequencies :
    /\ elements = <<>>
    /\ connections = <<>>
    /\ runningSimulation = FALSE
    /\ clockFrequency = ClampFrequency(req)
    /\ activeSignals = <<>>
    /\ flipFlopStates = <<>>
    /\ activeInputs = {}
    /\ activeOutputs = EmptyMap
    /\ activeFlipFlopInputs = EmptyMap
    /\ simTimers = FALSE
    /\ resetInterval = FALSE
    /\ resetOutputsInterval = FALSE
    /\ pending = <<>>
    /\ now = Quantum
    /\ event = Ev("init")

\* Runs at constant frequency on the input wired to the output, with a clk.
NextTraversal ==
  \/ LoadNetlist(4)
  \/ StartSimulation
  \/ StopSimulation
  \/ ResetTriggered
  \/ \E id \in ElementIds : ToggleInput(id)
  \/ Timers

SpecTraversal == InitTraversal /\ [][NextTraversal]_vars

\* Runs of a started simulation on the flip-flop with enable whose output
\* drives a lookup table.
NextLatch ==
  \/ LoadNetlist(10)
  \/ StartSimulation
  \/ \E id \in ElementIds : ToggleInput(id)
  \/ EmissionTick
  \/ AdvanceTick
  \/ EnableSweep
  \/ TimePasses
  \/ \E i \in 1..Len(pending) : DeferredEmission(i)

\* The state after construction and a first frequency request for 50 Hz,
\* at which a signal is in flight for two advancement ticks.
InitLatch == InitRun /\ clockFrequency = 50

SpecLatch == InitLatch /\ [][NextLatch]_vars

\* Runs on the two flip-flops driven by one module_input.
NextFrame ==
  \/ LoadNetlist(11)
  \/ StartSimulation
  \/ ResetTriggered
  \/ \E id \in ElementIds : ToggleInput(id)
  \/ Timers

SpecFrame == InitRun /\ [][NextFrame]_vars

\* A position the cursor drags an element to that the layout gives to no
\* element.
CornerPositions == {<<0, 0>>}

\* Runs on the two flip-flops driven by one module_input, in which the
\* flip-flop with enable is dragged and the layout is recomputed.
NextDrag ==
  \/ LoadNetlist(11)
  \/ StartSimulation
  \/ \E id \in ElementIds : ToggleInput(id)
  \/ EmissionTick
  \/ AdvanceTick
  \/ TimePasses
  \/ \E p \in CornerPositions : DragElement(3, p)
  \/ AutoArrange

SpecDrag == InitLatch /\ [][NextDrag]_vars

\* Runs on the flip-flop whose clock port is wired by "clk_en".
NextPorts ==
  \/ LoadNetlist(9)
  \/ Commands
  \/ Timers

SpecPorts == InitRun /\ [][NextPorts]_vars

\* The enable-expiry interval fires once it has stayed set for its period,
\* and time passes up to the horizon.
FairSpecSweep ==
  SpecSweep /\ WF_vars(EnableSweep) /\ WF_vars(TimePasses)

\* The output-expiry interval keeps firing while it is set, and time passes
\* up to the horizon.
FairSpecOutputs ==
  SpecIO /\ WF_vars(OutputSweep) /\ WF_vars(TimePasses)

\* An interval that is set keeps firing.
FairSpecIO ==
  SpecIO /\ WF_vars(EmissionTick) /\ WF_vars(AdvanceTick)

\* ----------------------------------------------------------------- claims
Wires == {"d", "c", "e", "q", "x"}

\* The number of signals in flight on connection w.
Count(sigs, w) == Cardinality({i \in 1..Len(sigs) : sigs[i].connectionName = w})

\* C1: an emission tick adds no signal on a connection that has a signal in
\* flight and at most one on a free connection, and an advancement tick adds
\* none; so emission and advancement ticks keep at most one signal per
\* connection name.
C1_EmissionSuppressedOnOccupied ==
  [][ /\ event'.op = "emit" =>
           \A w \in Wires :
             Count(activeSignals', w) <= Max(Count(activeSignals, w), 1)
      /\ event'.op = "advance" =>
           \A w \in Wires :
             Count(activeSignals', w) <= Count(activeSignals, w) ]_vars

\* An emission tick ran with a signal under way on a connection it drives
\* and put a new signal on another connection.
C1_Witness ==
  /\ event.op = "emit"
  /\ \E i, j \in 1..Len(activeSignals) :
       /\ activeSignals[i].position # DoubleZero
       /\ InSeq(ClockConnections(elements, connections)
                  \o InputConnections(elements, connections, activeInputs),
                activeSignals[i].connectionName)
       /\ Count(activeSignals, activeSignals[i].connectionName) = 1
       /\ activeSignals[j].position = DoubleZero

\* C2: the deferred flip-flop output emission adds a signal only on a free
\* connection, so at most one signal per connection is in flight in every
\* reachable state.
C2_DeferredEmissionObservesOccupancy ==
  /\ event.op = "deferred" /\ event.conn # NoConn => ~event.occupied
  /\ \A w \in Wires : Count(activeSignals, w) <= 1

\* C3: every signal in flight has progress below 1.0, and an advancement tick
\* dispatches exactly the signals whose progress reaches 1.0 in it, each once
\* and in list order, and keeps exactly the other signals, advanced.
C3_ArrivalDispatchedOnce ==
  /\ [](\A i \in 1..Len(activeSignals) :
          FixedLess(activeSignals[i].position, FullPosition))
  /\ [][ event'.op = "advance" =>
           LET done == {i \in 1..Len(activeSignals) :
                          ~FixedLess(NewPosition(activeSignals[i], clockFrequency),
                                     FullPosition)}
               nth(k) == CHOOSE i \in done :
                           Cardinality({j \in done : j < i}) = k - 1
               kept == {i \in 1..Len(activeSignals) : i \notin done}
               keptNth(k) == CHOOSE i \in kept :
                               Cardinality({j \in kept : j < i}) = k - 1
           IN /\ Len(event'.arrivals) = Cardinality(done)
              /\ \A k \in 1..Cardinality(done) :
                   /\ event'.arrivals[k].connectionName
                        = activeSignals[nth(k)].connectionName
                   /\ event'.arrivals[k].position = activeSignals[nth(k)].position
              /\ Len(activeSignals') = Cardinality(kept)
              /\ \A k \in 1..Cardinality(kept) :
                   /\ activeSignals'[k].connectionName
                        = activeSignals[keptNth(k)].connectionName
                   /\ activeSignals'[k].position
                        = NewPosition(activeSignals[keptNth(k)], clockFrequency) ]_vars

\* An advancement tick dispatched a signal that reached 1.0 exactly and kept
\* another signal in flight.
C3_Witness ==
  /\ event.op = "advance"
  /\ \E k \in 1..Len(event.arrivals) :
       NewPosition(event.arrivals[k], clockFrequency) = FullPosition
  /\ Len(activeSignals) >= 1

\* C4: while the simulation is stopped the active-signal list is empty.
C4_NoSignalWhileStopped ==
  ~runningSimulation => activeSignals = <<>>

C6_ResetClearsActivity ==
  event.op = "reset" =>
    /\ activeSignals = <<>>
    /\ activeOutputs = EmptyMap
    /\ activeInputs = {}

\* C7: every DFF_NE flip-flop has hasEn = true.
C7_NoEnableAlwaysEnabled ==
  \A i \in 1..Len(flipFlopStates) :
    flipFlopStates[i].type = "DFF_NE" => flipFlopStates[i].hasEn

\* A signal arrived at the enable port of a DFF_NE.
C7_Witness ==
  /\ event.op = "advance"
  /\ \E k \in 1..Len(event.arrivals) :
       event.arrivals[k].kind = "En" /\ event.arrivals[k].before.type = "DFF_NE"

\* C8: a clock arrival less than 50 ms after the last accepted clock edge of
\* the flip-flop leaves the flip-flop state unchanged and sets no timeout.
C8_DebouncedEdgeIgnored ==
  event.op = "advance" =>
    \A k \in 1..Len(event.arrivals) :
      (event.arrivals[k].kind = "clk"
       /\ now - event.arrivals[k].before.lastClockTime < 50)
      => /\ event.arrivals[k].after = event.arrivals[k].before
         /\ ~event.arrivals[k].scheduled

\* A clock arrival was debounced at a flip-flop with a pending D.
C8_Witness ==
  /\ event.op = "advance"
  /\ \E k \in 1..Len(event.arrivals) :
       /\ event.arrivals[k].kind = "clk"
       /\ now - event.arrivals[k].before.lastClockTime < 50
       /\ event.arrivals[k].before.hasD

\* C9: for a DFF_NE an accepted clock edge sets outputValue to the value of
\* hasD before the edge and sets hasD to false.
C9_NoEnableLatchesD ==
  event.op = "advance" =>
    \A k \in 1..Len(event.arrivals) :
      (event.arrivals[k].kind = "clk"
       /\ event.arrivals[k].before.type = "DFF_NE"
       /\ now - event.arrivals[k].before.lastClockTime >= 50)
      => /\ event.arrivals[k].after.outputValue = event.arrivals[k].before.hasD
         /\ event.arrivals[k].after.hasD = FALSE

\* The second accepted edge after a D arrival: the output was true, no D was
\* pending, and the edge set the output back to false.
C9_Witness ==
  /\ event.op = "advance"
  /\ \E k \in 1..Len(event.arrivals) :
       /\ event.arrivals[k].kind = "clk"
       /\ event.arrivals[k].accepted
       /\ event.arrivals[k].before.type = "DFF_NE"
       /\ event.arrivals[k].before.outputValue
       /\ ~event.arrivals[k].before.hasD
       /\ ~event.arrivals[k].after.outputValue

\* The time of the most recent enable arrival at flip-flop id, 0 when none
\* arrived since the elements were loaded.
LastEnableArrival(id) ==
  IF id \in DOMAIN activeFlipFlopInputs
  THEN activeFlipFlopInputs[id].lastEnUpdateTime ELSE 0

C11_InputReachesOutput ==
  (/\ elements = ArrangedExamples[3]
   /\ runningSimulation
   /\ 1 \in activeInputs)
  ~> (\/ SignalExists(activeSignals, "d")
      \/ 4 \in DOMAIN activeOutputs
      \/ elements # ArrangedExamples[3]
      \/ ~runningSimulation
      \/ 1 \notin activeInputs)

\* C12: the simulation runs and the four periodic processes are all set, or
\* it is stopped and none of them is set.
C12_ProcessesTogether ==
  /\ runningSimulation => simTimers /\ resetInterval /\ resetOutputsInterval
  /\ ~runningSimulation => ~simTimers /\ ~resetInterval /\ ~resetOutputsInterval

\* The elements without their coordinates.
Unplaced(els) ==
  [k \in 1..Len(els) |-> [els[k] EXCEPT !.x = Undefined, !.y = Undefined]]

\* C13: arrangeElements gives every element of the netlist a position: the
\* element list holds exactly the elements of the loaded netlist, in order,
\* and each has both coordinates.
C13_EveryElementPlaced ==
  /\ \A k \in 1..Len(elements) :
       elements[k].x # Undefined /\ elements[k].y # Undefined
  /\ elements # <<>> =>
       \E i \in 1..Len(Examples) :
         /\ connections = Examples[i].connections
         /\ Unplaced(elements) = Examples[i].elements
  /\ event.op = "arrange" => Unplaced(elements) = Unplaced(event.before)

\* The netlist with the flip-flop feedback loop is loaded: the two elements
\* of the loop lie in the catch-all layer.
C13_Witness ==
  /\ connections = ExampleCycle.connections
  /\ Len(elements) = 4
  /\ \A k \in 1..Len(elements) :
       elements[k].id \in {3, 4} =>
         elements[k].x = LayoutOrigin + HORIZONTAL_SPACING

\* The layer of element id in the layers of the current netlist.
LayerOf(id) ==
  LET layers == LayersOf(elements, connections)
  IN CHOOSE l \in 1..Len(layers) : InSeq(layers[l], id)

\* C14: every element placed by the breadth expansion lies in a layer
\* strictly later than the layer of each element that drives one of its
\* input ports.
C14_DriversInEarlierLayers ==
  LET l0 == SourceLayer(elements)
      v0 == {l0[i] : i \in 1..Len(l0)}
      bfs == BuildLayers(elements, DependencyGraph(elements, connections),
                         l0, v0, <<l0>>).layers
  IN \A l \in 2..Len(bfs) : \A k \in 1..Len(bfs[l]) :
       LET e == FirstIndex(elements, LAMBDA el : el.id = bfs[l][k])
       IN \A drv \in InputElements(elements, elements[e]) : LayerOf(drv) < l

\* C15: the elements of the caller's array are, after arrangeElements, as
\* they were before the call.
C15_InputNotModified ==
  event.op = "arrange" => event.input = event.before

\* C16: arrangeElements applied to its own output, with the same
\* connections, returns that output, whatever the positions were before.
C16_ArrangeIdempotent ==
  /\ LET once == arrangeElements(elements, connections)
     IN arrangeElements(once, connections) = once
  /\ event.op = "arrange" => arrangeElements(elements, connections) = elements
  /\ \A i \in 1..Len(Examples) :
       arrangeElements(ArrangedExamples[i], Examples[i].connections)
         = ArrangedExamples[i]

\* The layout was recomputed for a netlist in which an element had been
\* dragged away from its place.
C16_Witness ==
  /\ event.op = "arrange"
  /\ event.before # elements
  /\ Len(elements) >= 3

\* C17: the clock frequency starts at 20 and stays within [1, 100]; a
\* frequency-change command gives 1 for a request below 1, 100 for a
\* request above 100 and the request itself otherwise.
C17_FrequencyClamped ==
  /\ clockFrequency = 20
  /\ [](clockFrequency \in 1..100)
  /\ [][ \A req \in FrequencyValues :
           ChangeFrequency(req) =>
             clockFrequency' = IF req < 1 THEN 1
                               ELSE IF req > 100 THEN 100 ELSE req ]_vars

\* A request below 1 was made: no request asks for 1 itself.
C17_Witness ==
  /\ clockFrequency = 1
  /\ 1 \notin FrequencyValues

\* The connection has both a source and a destination element.
Resolvable(els, w) == SourceIndex(els, w) # 0 /\ DestIndex(els, w) # 0

C19_MissingNetlistEmptiesState ==
  /\ [](elements = <<>> =>
          /\ connections = <<>>
          /\ flipFlopStates = <<>>
          /\ activeFlipFlopInputs = EmptyMap)
  /\ [][ LoadNetlist(0) =>
           elements' = <<>> /\ connections' = <<>> /\ flipFlopStates' = <<>> ]_vars
  /\ [](\A i \in 1..Len(Examples) :
          arrangeElements(<<>>, Examples[i].connections) = <<>>)

\* The netlist went missing while signals of the earlier netlist were in
\* flight.
C19_Witness ==
  /\ elements = <<>>
  /\ connections = <<>>
  /\ activeSignals # <<>>

\* C20: an accepted clock edge at a DFF whose hasEn is false leaves
\* outputValue unchanged, sets hasD to false, stamps lastClockTime with the
\* arrival time and sets no timeout.
C20_GatedEdgeDropsD ==
  event.op = "advance" =>
    \A k \in 1..Len(event.arrivals) :
      (event.arrivals[k].kind = "clk"
       /\ event.arrivals[k].accepted
       /\ event.arrivals[k].before.type = "DFF"
       /\ ~event.arrivals[k].before.hasEn)
      => /\ event.arrivals[k].after.outputValue
              = event.arrivals[k].before.outputValue
         /\ event.arrivals[k].after.hasD = FALSE
         /\ event.arrivals[k].after.lastClockTime = now
         /\ ~event.arrivals[k].scheduled

\* A D pulse was pending at a gated-off clock edge and is lost.
C20_Witness ==
  /\ event.op = "advance"
  /\ \E k \in 1..Len(event.arrivals) :
       /\ event.arrivals[k].kind = "clk"
       /\ event.arrivals[k].accepted
       /\ event.arrivals[k].before.type = "DFF"
       /\ ~event.arrivals[k].before.hasEn
       /\ event.arrivals[k].before.hasD
       /\ ~event.arrivals[k].after.hasD
       /\ ~event.arrivals[k].after.outputValue

\* The flip-flop state of element id.
StateOf(id) ==
  flipFlopStates[CHOOSE i \in 1..Len(flipFlopStates) : flipFlopStates[i].id = id]

\* The simulation runs on the two flip-flops with enable, and the enable of
\* the first one is asserted although its last arrival is more than 500 ms
\* old.
FirstEnableOverdue ==
  /\ runningSimulation
  /\ elements = ArrangedExamples[8]
  /\ StateOf(3).hasEn
  /\ now - LastEnableArrival(3) > SIGNAL_TIMEOUT

\* The step that led here dispatched an enable arrival at flip-flop id.
EnableArrivedAt(id) ==
  /\ event.op = "advance"
  /\ \E k \in 1..Len(event.arrivals) :
       event.arrivals[k].kind = "En" /\ event.arrivals[k].dest = id

\* C21: while the simulation keeps running, a DFF whose enable was asserted
\* and gets no further enable arrival is eventually deasserted by the
\* enable-expiry sweep, whatever arrives at other flip-flops.  Taken in the
\* case where the ticks keep firing and enable arrivals keep coming at the
\* second flip-flop: the first flip-flop does not stay asserted for ever
\* with an enable arrival more than 500 ms old.
C21_StaleEnableEventuallyDeasserted ==
  ([]<>(event.op = "emit") /\ []<>EnableArrivedAt(4))
    => (FirstEnableOverdue ~> ~FirstEnableOverdue)

\* The times at which an entry can be stamped early enough for the run to
\* outlast its timeout.
ExpiringStamps ==
  {t \in {k * Quantum : k \in 1..Horizon} : t + OUTPUT_SIGNAL_TIMEOUT < MaxTime}

\* An arrival at a module_output stamped its entry with the current time.
StampedOnArrival ==
  event.op = "advance" =>
    \A k \in 1..Len(event.arrivals) :
      event.arrivals[k].kind = "output" =>
        /\ event.arrivals[k].dest \in DOMAIN activeOutputs
        /\ activeOutputs[event.arrivals[k].dest] = now

\* While the simulation runs, an entry that is not stamped again is
\* eventually removed.
StaleOutputEventuallyRemoved ==
  \A id \in ElementIds : \A t \in ExpiringStamps :
    (runningSimulation /\ id \in DOMAIN activeOutputs /\ activeOutputs[id] = t)
      ~> (\/ ~runningSimulation
          \/ id \notin DOMAIN activeOutputs
          \/ activeOutputs[id] # t)

\* C22 as stated: an arrival at a module_output stamps its entry with the
\* current time; while the simulation runs an entry that is not stamped
\* again is eventually removed, and no step removes an entry while 500 ms or
\* less have elapsed since its stamp; while the simulation is stopped the
\* map is empty.
C22_OutputEntryKeptUntilTimeout ==
  /\ []StampedOnArrival
  /\ StaleOutputEventuallyRemoved
  /\ [][ runningSimulation /\ runningSimulation' =>
           \A id \in DOMAIN activeOutputs :
             id \notin DOMAIN activeOutputs'
               => now - activeOutputs[id] > 500 ]_vars
  /\ [](~runningSimulation => activeOutputs = EmptyMap)

\* C22 amended: as stated, except that a reset empties the map at once: the
\* output-expiry sweep removes exactly the entries stamped more than 500 ms
\* ago, and while the simulation runs no step other than that sweep and a
\* reset removes an entry.
C22_OutputEntryExpiresBySweep ==
  /\ []StampedOnArrival
  /\ StaleOutputEventuallyRemoved
  /\ [][ OutputSweep =>
           \A id \in DOMAIN activeOutputs :
             id \notin DOMAIN activeOutputs'
               <=> now - activeOutputs[id] > 500 ]_vars
  /\ [][ runningSimulation /\ runningSimulation' =>
           \A id \in DOMAIN activeOutputs :
             id \notin DOMAIN activeOutputs'
               => \/ OutputSweep /\ now - activeOutputs[id] > 500
                  \/ ResetTriggered ]_vars
  /\ [](~runningSimulation => activeOutputs = EmptyMap)

\* The output-expiry sweep removed the entry of the module_output while the
\* simulation was running.
C22_Witness ==
  /\ event.op = "expire"
  /\ runningSimulation
  /\ 4 \notin DOMAIN activeOutputs
  /\ \E i \in 1..Len(elements) :
       elements[i].id = 4 /\ elements[i].type = "module_output"

\* The connection leaves the clock element, which is the first element of
\* type clk, or a module_input of the active-input set.
EmissionSource(els, inputs, w) ==
  LET s == SourceIndex(els, w)
  IN /\ s # 0
     /\ \/ \E c \in 1..Len(els) :
             /\ els[c].type = "clk"
             /\ \A j \in 1..(c - 1) : els[j].type # "clk"
             /\ els[s].id = els[c].id
        \/ els[s].type = "module_input" /\ els[s].id \in inputs

\* The indices of the signals that the step appended to the signal list.
NewSignals == (Len(activeSignals) + 1)..Len(activeSignals')

\* C23 (the emission tick is the one step that records "emit"): an emission
\* tick keeps the signals in flight and appends one signal
\* at progress 0 on each connection that carries no signal, has a
\* resolvable source and destination, and leaves the clock element or a
\* module_input that is in the active-input set at the tick; it appends no
\* signal on any other connection.
C23_EmissionTargets ==
  [][ event'.op = "emit" =>
        /\ Len(activeSignals') >= Len(activeSignals)
        /\ SubSeq(activeSignals', 1, Len(activeSignals)) = activeSignals
        /\ \A k \in NewSignals :
             /\ activeSignals'[k].position = DoubleZero
             /\ \E j \in 1..Len(connections) :
                  connections[j] = activeSignals'[k].connectionName
        /\ \A j \in 1..Len(connections) :
             Cardinality({k \in NewSignals :
                            activeSignals'[k].connectionName = connections[j]})
               = IF /\ ~SignalExists(activeSignals, connections[j])
                    /\ Resolvable(elements, connections[j])
                    /\ EmissionSource(elements, activeInputs, connections[j])
                 THEN 1 ELSE 0 ]_vars

\* An emission tick put a signal on the free clk connection, while the
\* connection of the active input d still carried one, the connection of
\* the inactive input e got none and the clk connection x that reaches no
\* element got none.
C23_Witness ==
  /\ event.op = "emit"
  /\ elements = ArrangedExamples[2]
  /\ activeInputs = {1}
  /\ \E i \in 1..Len(activeSignals) :
       /\ activeSignals[i].connectionName = "c"
       /\ activeSignals[i].position = DoubleZero
  /\ \E i \in 1..Len(activeSignals) :
       /\ activeSignals[i].connectionName = "d"
       /\ activeSignals[i].position # DoubleZero
  /\ ~SignalExists(activeSignals, "e")
  /\ ~SignalExists(activeSignals, "x")

\* The role of the input port that wire w is wired to, by its index alone.
RoleByIndex(el, w) ==
  LET portIndex == FirstIndex(el.inputs, LAMBDA n : n = w) - 1
  IN CASE portIndex = 0 -> "D"
       [] portIndex = 1 -> "clk"
       [] portIndex = 2 -> "En"
       [] OTHER -> "none"

\* C24: every signal arrival at a flip-flop is handled by the handler of
\* the index of the input port its connection is wired to, 0 the D handler,
\* 1 the clock handler, 2 the enable handler, whatever the name of the wire.
C24_PortIndexSelectsHandler ==
  event.op = "advance" =>
    \A k \in 1..Len(event.arrivals) :
      LET a == event.arrivals[k]
      IN a.kind \in {"D", "clk", "En", "none"} =>
           /\ a.kind # "none"
           /\ a.kind = RoleByIndex(
                 elements[FirstIndex(elements, LAMBDA el : el.id = a.dest)],
                 a.connectionName)

\* The progress of a signal emitted at 0 after k advancement ticks at
\* frequency freq.
RECURSIVE PositionAfter(_, _)
PositionAfter(freq, k) ==
  IF k = 0 THEN DoubleZero
  ELSE DoubleAdd(PositionAfter(freq, k - 1), SignalStep(freq))

\* C25: at constant frequency a signal emitted at progress 0 arrives in its
\* advancement tick number ceil(100 / clockFrequency): a signal in flight
\* has been advanced by fewer ticks than that, and a signal that arrives
\* has been advanced by one tick less than that before the tick of its
\* arrival.
C25_ArrivalAfterCeilTicks ==
  LET ticks == (100 + clockFrequency - 1) \div clockFrequency
  IN /\ \A i \in 1..Len(activeSignals) :
          \E k \in 0..(ticks - 1) :
            activeSignals[i].position = PositionAfter(clockFrequency, k)
     /\ event.op = "advance" =>
          \A k \in 1..Len(event.arrivals) :
            event.arrivals[k].position
              = PositionAfter(clockFrequency, ticks - 1)

\* The signals that one more step leaves below 1.0.
Survivors(sigs, freq) ==
  SelectSeq(sigs, LAMBDA sig : FixedLess(NewPosition(sig, freq), FullPosition))

\* C26: the progress of every signal of the list is at least 0 and below
\* 1.0; an emission tick appends signals at progress 0 and leaves the
\* others as they are; an advancement tick removes exactly the signals that
\* reach 1.0 or more and strictly increases the progress of the others.
C26_ProgressWithinUnit ==
  /\ [](\A i \in 1..Len(activeSignals) :
          /\ ~FixedLess(activeSignals[i].position, DoubleZero)
          /\ FixedLess(activeSignals[i].position, FullPosition))
  /\ [][ event'.op = "emit" =>
           /\ Len(activeSignals') >= Len(activeSignals)
           /\ SubSeq(activeSignals', 1, Len(activeSignals)) = activeSignals
           /\ \A k \in (Len(activeSignals) + 1)..Len(activeSignals') :
                activeSignals'[k].position = DoubleZero ]_vars
  /\ [][ event'.op = "advance" =>
           LET kept == Survivors(activeSignals, clockFrequency)
           IN /\ Len(activeSignals') = Len(kept)
              /\ \A j \in 1..Len(kept) :
                   /\ activeSignals'[j].connectionName = kept[j].connectionName
                   /\ FixedLess(kept[j].position, activeSignals'[j].position) ]_vars

\* An advancement tick removed the one signal in flight, which had left
\* progress 0 in an earlier tick and reached 1.0 in this one.
C26_Witness ==
  /\ event.op = "advance"
  /\ activeSignals = <<>>
  /\ Len(event.arrivals) = 1
  /\ FixedLess(DoubleZero, event.arrivals[1].position)
  /\ FixedLess(event.arrivals[1].position, FullPosition)

\* The arrival was handled by the flip-flop chain.
AtFlipFlop(a) == a.kind \in {"D", "En", "clk", "none"}

\* The arrival is a clock edge that passes the debounce, is not gated off
\* and latches outputValue to true.
LatchesTrue(a, t) ==
  /\ a.kind = "clk"
  /\ t - a.before.lastClockTime >= 50
  /\ a.before.type = "DFF_NE" \/ (a.before.type = "DFF" /\ a.before.hasEn)
  /\ a.before.hasD

\* C27: an arrival at a flip-flop sets the timeout of an output emission
\* exactly when it is a clock edge that passes the debounce, is not gated
\* off by a deasserted enable and latches outputValue to true; each timeout
\* set is outstanding after the tick of the arrival, due 100 ms later, while
\* the flip-flop state already is the one the arrivals of the tick produced:
\* after an accepted edge lastClockTime is the time of the arrival, hasD is
\* false and outputValue is the latched D, or the old value when gated off.
\* The timeout callback fires when due and leaves the flip-flop states.
C27_EmissionDeferredNotState ==
  /\ [](event.op = "advance" =>
          \A k \in 1..Len(event.arrivals) :
            LET a == event.arrivals[k]
            IN AtFlipFlop(a) =>
                 /\ a.scheduled <=> LatchesTrue(a, now)
                 /\ (\A j \in (k + 1)..Len(event.arrivals) :
                        event.arrivals[j].dest # a.dest)
                      => StateOf(a.dest) = a.after
                 /\ a.kind = "clk" /\ a.accepted =>
                      /\ a.after.lastClockTime = now
                      /\ ~a.after.hasD
                      /\ a.after.outputValue =
                           IF a.before.type = "DFF_NE" \/ a.before.hasEn
                           THEN a.before.hasD ELSE a.before.outputValue
                 /\ a.kind = "clk" /\ ~a.accepted => a.after = a.before)
  /\ [][ event'.op = "advance" =>
           /\ Len(pending') = Len(pending)
                + Cardinality({k \in 1..Len(event'.arrivals) :
                                 event'.arrivals[k].scheduled})
           /\ SubSeq(pending', 1, Len(pending)) = pending
           /\ \A i \in (Len(pending) + 1)..Len(pending') :
                pending'[i].due = now + 100 ]_vars
  /\ [][ event'.op = "deferred" =>
           /\ pending[1].due <= now
           /\ flipFlopStates' = flipFlopStates ]_vars

\* An accepted clock edge at the enabled flip-flop just latched true: the
\* state change is in effect and the timeout is outstanding, not yet due.
C27_Witness ==
  /\ event.op = "advance"
  /\ elements = ArrangedExamples[10]
  /\ \E k \in 1..Len(event.arrivals) :
       /\ event.arrivals[k].kind = "clk"
       /\ event.arrivals[k].scheduled
       /\ ~event.arrivals[k].before.outputValue
  /\ StateOf(3).outputValue
  /\ ~StateOf(3).hasD
  /\ StateOf(3).lastClockTime = now
  /\ \E i \in 1..Len(pending) : pending[i].id = 3 /\ pending[i].due > now

\* The arrivals of the step at flip-flop id, as indices of its record.
ArrivalsAt(id) ==
  {k \in 1..Len(event'.arrivals) : event'.arrivals[k].dest = id}

\* The state that flip-flop id has when arrival k of the step is handled:
\* the one the arrival before it at that flip-flop left, or the one before
\* the step.
StateBefore(id, k) ==
  LET earlier == {j \in ArrivalsAt(id) : j < k}
  IN IF earlier = {} THEN StateOf(id)
     ELSE event'.arrivals[CHOOSE j \in earlier : \A i \in earlier : i <= j].after

\* C28: an arrival at the D port of a flip-flop sets its hasD and changes
\* nothing else of it; an arrival at the enable port of a DFF sets its
\* hasEn, changes nothing else of it and records the time of the arrival
\* in the tracker; an arrival at the enable port of a DFF_NE changes
\* nothing; no arrival changes the state or the tracker entry of another
\* flip-flop than the one it arrives at.
C28_ArrivalFrame ==
  [][ event'.op = "advance" =>
        /\ \A k \in 1..Len(event'.arrivals) :
             LET a == event'.arrivals[k]
             IN AtFlipFlop(a) =>
                  /\ a.before = StateBefore(a.dest, k)
                  /\ a.kind = "D" =>
                       /\ a.after.hasD
                       /\ a.after = [a.before EXCEPT !.hasD = TRUE]
                  /\ a.kind = "En" /\ a.before.type = "DFF" =>
                       /\ a.after.hasEn
                       /\ a.after = [a.before EXCEPT !.hasEn = TRUE]
                  /\ a.kind = "En" /\ a.before.type = "DFF_NE" =>
                       a.after = a.before
        /\ \A i \in 1..Len(flipFlopStates) :
             flipFlopStates'[i] = StateBefore(flipFlopStates[i].id,
                                              Len(event'.arrivals) + 1)
        /\ DOMAIN activeFlipFlopInputs' = DOMAIN activeFlipFlopInputs
        /\ \A id \in DOMAIN activeFlipFlopInputs :
             IF \E k \in ArrivalsAt(id) :
                  /\ event'.arrivals[k].kind = "En"
                  /\ event'.arrivals[k].before.type = "DFF"
             THEN activeFlipFlopInputs'[id] =
                    [activeFlipFlopInputs[id] EXCEPT !.En = TRUE,
                                                     !.lastEnUpdateTime = now]
             ELSE activeFlipFlopInputs'[id] = activeFlipFlopInputs[id] ]_vars

\* One advancement tick delivered the D and the enable signal to both
\* flip-flops: the DFF got hasD, hasEn and the time of the arrival, the
\* DFF_NE got hasD only.
C28_Witness ==
  /\ event.op = "advance"
  /\ elements = ArrangedExamples[11]
  /\ \E k \in 1..Len(event.arrivals) :
       /\ event.arrivals[k].kind = "D"
       /\ event.arrivals[k].dest = 3
       /\ ~event.arrivals[k].before.hasD
  /\ \E k \in 1..Len(event.arrivals) :
       /\ event.arrivals[k].kind = "En"
       /\ event.arrivals[k].dest = 3
       /\ ~event.arrivals[k].before.hasEn
  /\ \E k \in 1..Len(event.arrivals) :
       /\ event.arrivals[k].kind = "En"
       /\ event.arrivals[k].dest = 4
  /\ StateOf(3).hasD /\ StateOf(3).hasEn
  /\ StateOf(4).hasD
  /\ activeFlipFlopInputs[3].lastEnUpdateTime = now
  /\ activeFlipFlopInputs[4].lastEnUpdateTime = 0

\* The connection lists that hold the connections of conns in any order.
Reorderings(conns) ==
  {[i \in 1..Len(conns) |-> conns[f[i]]] :
     f \in {g \in [1..Len(conns) -> 1..Len(conns)] :
              \A a, b \in 1..Len(conns) : a # b => g[a] # g[b]}}

\* The x coordinate, which tells the layer, that arrangeElements gives each
\* element.
LayerX(els, conns) ==
  [i \in 1..Len(els) |-> arrangeElements(els, conns)[i].x]

\* C29: for the elements on the canvas, arrangeElements gives every element
\* the same layer with the connection list of the netlist and with any
\* reordering of it.
C29_LayerIndependentOfConnectionOrder ==
  \A conns \in Reorderings(connections) :
    LayerX(elements, conns) = LayerX(elements, connections)

\* The breadth-first expansion from layer 0: the layers it builds and the
\* ids it reaches.
Expansion(els, conns) ==
  LET l0 == SourceLayer(els)
  IN BuildLayers(els, DependencyGraph(els, conns), l0,
                 {l0[i] : i \in 1..Len(l0)}, <<l0>>)

\* C30: arrangeElements puts into layer 0 exactly the elements of type
\* module_input or clk and the elements without input ports, and puts all
\* the elements that the breadth-first expansion does not reach into one
\* layer, which comes after the layers of all the elements it reaches.
C30_SourceAndCatchAllLayers ==
  LET arr == arrangeElements(elements, connections)
      exp == Expansion(elements, connections)
  IN \A i \in 1..Len(elements) :
       /\ arr[i].x = 100 <=> \/ elements[i].type = "module_input"
                             \/ elements[i].type = "clk"
                             \/ Len(elements[i].inputs) = 0
       /\ IF elements[i].id \in exp.visited
          THEN arr[i].x < 100 + Len(exp.layers) * 200
          ELSE arr[i].x = 100 + Len(exp.layers) * 200

\* The auto-arrangement placed the lookup table without input ports in
\* layer 0 with the clk, and the two elements of the feedback loop, which
\* the expansion does not reach, together in the last layer, after the
\* module_output.
C30_Witness ==
  /\ event.op = "arrange"
  /\ connections = ExampleConst.connections
  /\ Len(elements) = 5
  /\ elements[1].type = "LUT_1" /\ elements[1].x = 100
  /\ elements[3].type = "clk" /\ elements[3].x = 100
  /\ elements[2].x = 300
  /\ elements[4].x = 500 /\ elements[5].x = 500

\* C31: dragging an element and the auto-arrangement leave hasD, hasEn,
\* outputValue and lastClockTime of every flip-flop as they were.
C31_PositionCommandsKeepFlipFlops ==
  [][ (AutoArrange \/ \E p \in CornerPositions : DragElement(3, p)) =>
        /\ Len(flipFlopStates') = Len(flipFlopStates)
        /\ \A i \in 1..Len(flipFlopStates) :
             /\ flipFlopStates'[i].hasD = flipFlopStates[i].hasD
             /\ flipFlopStates'[i].hasEn = flipFlopStates[i].hasEn
             /\ flipFlopStates'[i].outputValue = flipFlopStates[i].outputValue
             /\ flipFlopStates'[i].lastClockTime
                  = flipFlopStates[i].lastClockTime ]_vars

\* The places, layer and slot, at which the layers list the id.
PlacesOf(layers, id) ==
  {p \in {<<l, k>> : l \in 1..Len(layers), k \in 1..Len(elements)} :
     p[2] <= Len(layers[p[1]]) /\ layers[p[1]][p[2]] = id}

\* C32: arrangeElements lists every element in exactly one slot of exactly
\* one layer and gives it x = 100 + 200 * layerIndex and
\* y = 100 + 100 * slotIndex, so no two elements get the same position.
C32_OnePlacePerElement ==
  LET arr == arrangeElements(elements, connections)
      layers == LayersOf(elements, connections)
  IN /\ \A i \in 1..Len(elements) :
          /\ Cardinality(PlacesOf(layers, elements[i].id)) = 1
          /\ \A p \in PlacesOf(layers, elements[i].id) :
               /\ arr[i].x = 100 + 200 * (p[1] - 1)
               /\ arr[i].y = 100 + 100 * (p[2] - 1)
     /\ \A i, j \in 1..Len(elements) :
          i # j => <<arr[i].x, arr[i].y>> # <<arr[j].x, arr[j].y>>

\* The auto-arrangement placed four elements, two of them in one layer at
\* different heights, after one of them had been dragged away.
C32_Witness ==
  /\ event.op = "arrange"
  /\ Len(elements) >= 4
  /\ event.before # elements
  /\ \E i, j \in 1..Len(elements) :
       /\ elements[i].x = elements[j].x
       /\ elements[i].y # elements[j].y

\* C33: when the timeout callback of a flip-flop fires and adds a signal on
\* its output connection, the outputValue of that flip-flop is true.
C33_DeferredEmissionOnlyWhileTrue ==
  [][ event'.op = "deferred" /\ Len(activeSignals') > Len(activeSignals) =>
        \E i \in 1..Len(flipFlopStates) :
          /\ flipFlopStates[i].id = pending[1].id
          /\ flipFlopStates[i].outputValue ]_vars

\* C34: while the simulation runs, a change of the clock frequency and a
\* toggle of a module_input leave the signal list as it is, every signal
\* with its progress, and leave the tick intervals set; and no step that
\* leaves the simulation running, other than an advancement tick, takes a
\* signal from the list.
C34_RestartKeepsSignals ==
  /\ [][ /\ runningSimulation
         /\ \/ \E req \in FrequencyRequests : ChangeFrequency(req)
            \/ \E id \in ElementIds : ToggleInput(id)
         => /\ activeSignals' = activeSignals
            /\ simTimers' = simTimers
            /\ runningSimulation' ]_vars
  /\ [][ runningSimulation' /\ event'.op # "advance" =>
           /\ Len(activeSignals') >= Len(activeSignals)
           /\ SubSeq(activeSignals', 1, Len(activeSignals)) = activeSignals ]_vars

\* A signal that is half way, which only the 50 Hz step produces, is in
\* flight at 100 Hz while its module_input is inactive: the frequency was
\* changed and the input toggled while the signal was in flight.
C34_Witness ==
  /\ runningSimulation
  /\ simTimers
  /\ clockFrequency = 100
  /\ activeInputs = {}
  /\ \E i \in 1..Len(activeSignals) :
       /\ activeSignals[i].connectionName = "d"
       /\ activeSignals[i].position = PositionAfter(50, 1)

\* Whether the step taken is an advancement tick that delivers a signal to
\* the enable port of flip-flop id.
EnableArrivesAt(id) ==
  /\ event'.op = "advance"
  /\ \E k \in 1..Len(event'.arrivals) :
       event'.arrivals[k].kind = "En" /\ event'.arrivals[k].dest = id

\* C35: in every reachable state a DFF whose hasEn is true has a tracker
\* entry whose En is true, and the entry's lastEnUpdateTime is the time of
\* the most recent enable arrival: a step that delivers an enable signal to
\* the DFF leaves the time of that step in the entry, and after any other
\* step hasEn is true only if it was true before and the entry's time is
\* the one it had.
C35_AssertedEnableTracked ==
  /\ [](\A i \in 1..Len(flipFlopStates) :
          flipFlopStates[i].type = "DFF" /\ flipFlopStates[i].hasEn =>
            /\ flipFlopStates[i].id \in DOMAIN activeFlipFlopInputs
            /\ activeFlipFlopInputs[flipFlopStates[i].id].En
            /\ activeFlipFlopInputs[flipFlopStates[i].id].lastEnUpdateTime <= now)
  /\ [][ \A i \in 1..Len(flipFlopStates') :
           LET ff == flipFlopStates'[i]
           IN ff.type = "DFF" /\ ff.hasEn =>
                IF EnableArrivesAt(ff.id)
                THEN activeFlipFlopInputs'[ff.id].lastEnUpdateTime = now'
                ELSE /\ \E j \in 1..Len(flipFlopStates) :
                          /\ flipFlopStates[j].id = ff.id
                          /\ flipFlopStates[j].type = "DFF"
                          /\ flipFlopStates[j].hasEn
                     /\ activeFlipFlopInputs'[ff.id].lastEnUpdateTime =
                          activeFlipFlopInputs[ff.id].lastEnUpdateTime ]_vars

\* An enable arrival refreshed a DFF whose enable was already asserted by
\* an earlier arrival, and the tracker holds the time of the later one.
C35_Witness ==
  /\ event.op = "advance"
  /\ \E k \in 1..Len(event.arrivals) :
       /\ event.arrivals[k].kind = "En"
       /\ event.arrivals[k].before.type = "DFF"
       /\ event.arrivals[k].before.hasEn
       /\ StateOf(event.arrivals[k].dest).hasEn
       /\ activeFlipFlopInputs[event.arrivals[k].dest].En
       /\ activeFlipFlopInputs[event.arrivals[k].dest].lastEnUpdateTime = now
  /\ now > 0

=============================================================================
